---- MODULE Spec2Model ----
(***************************************************************************)
(* Model of finance-hq (src/app.py): a Streamlit dashboard over a Google   *)
(* spreadsheet "Master_Finance_DB".  The state is the spreadsheet (three   *)
(* sheets), the st.cache_data entry of load_data, the tables of the        *)
(* current script run, and what the run rendered.                          *)
(*                                                                         *)
(* Texts are modelled by their structure: a cell is a record with a kind   *)
(* k.  Amounts, limits and hours are integers (whole currency units /      *)
(* whole hours); percentages are kept exact as a pair num/den.             *)
(***************************************************************************)
EXTENDS Integers, Sequences, FiniteSets, TLC

\* ------------------------------------------------------------------ bounds
MaxRows == 2        \* data rows a sheet may hold (saves stop beyond it)
MaxSheetRows == 2   \* data rows of a transactions sheet a read-only session starts from

\* ------------------------------------------------------------------- cells
\* plain text; pad = it carries leading/trailing whitespace
Txt(s) == [k |-> "txt", s |-> s, pad |-> FALSE]
Padded(s) == [k |-> "txt", s |-> s, pad |-> TRUE]
\* "YYYY-MM-DD", "YYYY-MM-DD HH:MM:SS" (sep " ") or "YYYY-MM-DDTHH:MM:SS"
\* (sep "T"); tod is the time of day in seconds
DateTxt(y, m, d, sep, tod) ==
    [k |-> "date", y |-> y, m |-> m, d |-> d, sep |-> sep, tod |-> tod]
\* a number's text; sym = decorated with a currency sign / thousands commas
NumTxt(n, sym) == [k |-> "num", n |-> n, sym |-> sym]

\* --------------------------------------------------------- pandas values
NaT == [nat |-> TRUE]
NaN == << >>
Timestamp(y, m, d, tod) == [nat |-> FALSE, y |-> y, m |-> m, d |-> d, tod |-> tod]
NoData == <<0, 0>>

\* x.split(' ')[0]
SplitSpace(c) ==
    IF c.k = "date" /\ c.sep = " " THEN DateTxt(c.y, c.m, c.d, "", 0) ELSE c

\* pd.to_datetime(text, errors='coerce'), each text parsed on its own; a
\* time of day left in the text stays in the timestamp
to_datetime(c) ==
    IF c.k = "date" THEN Timestamp(c.y, c.m, c.d, c.tod) ELSE NaT

\* Series.dt.strftime('%Y-%m')
strftime_ym(ts) == IF ts.nat THEN NaN ELSE <<ts.y, ts.m>>

\* pd.to_numeric(text, errors='coerce').fillna(0)
to_numeric(c) ==
    IF c.k = "num" /\ ~c.sym THEN c.n ELSE 0

\* .str.replace(r'[^\d.-]', '', regex=True): only digits, '.', '-' survive
StripNonNumeric(c) ==
    IF c.k = "num" THEN NumTxt(c.n, FALSE) ELSE c

\* .str.strip()
strip(c) == IF c.k = "txt" THEN [c EXCEPT !.pad = FALSE] ELSE c

\* ------------------------------------------------------------------ grids
TxHeader == <<Txt("Date"), Txt("Amount"), Txt("Category"),
              Txt("Description"), Txt("Mode")>>
BudgetHeader == <<Txt("Category"), Txt("Monthly_Limit")>>
TimeHeader == <<Txt("Date"), Txt("Category"), Txt("Activity"), Txt("Hours")>>

\* position of a column name in a header row, 0 when absent (KeyError)
ColIdx(header, name) ==
    IF \E i \in 1..Len(header) : header[i] = Txt(name)
    THEN CHOOSE i \in 1..Len(header) : header[i] = Txt(name)
    ELSE 0

HasCol(header, name) == ColIdx(header, name) # 0

Cell(raw, r, name) == raw[r][ColIdx(raw[1], name)]

\* ------------------------------------------------------- load_data bodies
\* lines 31-35: the transactions table built from the raw grid; the column
\* lookups df_tx['Amount'], df_tx['Date'] raise KeyError when absent
TxRaises(raw) ==
    Len(raw) > 1 /\ (~HasCol(raw[1], "Amount") \/ ~HasCol(raw[1], "Date"))

TxRecord(raw, r) ==
    LET dt == to_datetime(SplitSpace(Cell(raw, r, "Date")))
    IN  [Date       |-> dt,
         Amount     |-> to_numeric(StripNonNumeric(Cell(raw, r, "Amount"))),
         Category   |-> IF HasCol(raw[1], "Category")
                        THEN Cell(raw, r, "Category") ELSE Txt(""),
         Month_Sort |-> strftime_ym(dt)]

TxFrame(raw) ==
    IF Len(raw) > 1
    THEN [i \in 1..(Len(raw) - 1) |-> TxRecord(raw, i + 1)]
    ELSE << >>

\* lines 42-44
BudgetRaises(raw) == Len(raw) > 1 /\ ~HasCol(raw[1], "Monthly_Limit")

BudgetRecord(raw, r) ==
    [Category      |-> Cell(raw, r, "Category"),
     Monthly_Limit |-> to_numeric(StripNonNumeric(Cell(raw, r, "Monthly_Limit")))]

BudgetFrame(raw) ==
    IF Len(raw) > 1
    THEN [i \in 1..(Len(raw) - 1) |-> BudgetRecord(raw, i + 1)]
    ELSE << >>

\* lines 51-57
TimeRaises(raw) ==
    Len(raw) > 1 /\ (~HasCol(raw[1], "Hours") \/ ~HasCol(raw[1], "Date")
                     \/ ~HasCol(raw[1], "Category"))

TimeRecord(raw, r) ==
    LET dt == to_datetime(Cell(raw, r, "Date"))
    IN  [Date       |-> dt,
         Category   |-> strip(Cell(raw, r, "Category")),
         Hours      |-> to_numeric(Cell(raw, r, "Hours")),
         Month_Sort |-> strftime_ym(dt)]

TimeFrame(raw) ==
    IF Len(raw) > 1
    THEN [i \in 1..(Len(raw) - 1) |-> TimeRecord(raw, i + 1)]
    ELSE << >>

\* -------------------------------------------------------------- sequences
RECURSIVE SumOver(_, _)
\* sum of f[i] over i in the finite set S of indices
SumOver(f, S) ==
    IF S = {} THEN 0
    ELSE LET i == CHOOSE j \in S : TRUE IN f[i] + SumOver(f, S \ {i})

\* df[df[col] == v] keeps the rows, in order, that satisfy the test
RECURSIVE SelectRows(_, _)
SelectRows(df, sel) ==
    IF df = << >> THEN << >>
    ELSE IF Head(df).Month_Sort = sel
         THEN <<Head(df)>> \o SelectRows(Tail(df), sel)
         ELSE SelectRows(Tail(df), sel)

\* sort_values(by='Amount', ascending=False), ties in their incoming order
RECURSIVE InsertDesc(_, _)
InsertDesc(row, sorted) ==
    IF sorted = << >> THEN <<row>>
    ELSE IF Head(sorted).Amount >= row.Amount
         THEN <<Head(sorted)>> \o InsertDesc(row, Tail(sorted))
         ELSE <<row>> \o sorted

RECURSIVE SortDesc(_)
SortDesc(rows) ==
    IF rows = << >> THEN << >>
    ELSE InsertDesc(rows[Len(rows)], SortDesc(SubSeq(rows, 1, Len(rows) - 1)))

\* a set of values laid out as a sequence (order of first occurrence in df)
RECURSIVE Uniq(_, _)
Uniq(keys, seen) ==
    IF keys = << >> THEN << >>
    ELSE IF Head(keys) \in seen THEN Uniq(Tail(keys), seen)
         ELSE <<Head(keys)>> \o Uniq(Tail(keys), seen \cup {Head(keys)})

\* --------------------------------------------------------------- sidebar
\* lines 78-81: the months offered by the month selector
all_months(tx, tm) ==
    ({tx[i].Month_Sort : i \in DOMAIN tx} \cup {tm[i].Month_Sort : i \in DOMAIN tm})
        \ {NaN}

\* line 82: a selectbox value, or "No Data" when nothing is offered
MonthChoices(tx, tm) ==
    IF all_months(tx, tm) = {} THEN {NoData} ELSE all_months(tx, tm)

\* ------------------------------------------------------- tab 2: budgets
\* sub_tx.groupby('Category')['Amount'].sum()
CategorySum(sub, cat) ==
    SumOver([i \in DOMAIN sub |-> sub[i].Amount],
            {i \in DOMAIN sub : sub[i].Category = cat})

actuals(sub) ==
    LET cats == Uniq([i \in DOMAIN sub |-> sub[i].Category], {})
    IN  [i \in DOMAIN cats |-> [Category |-> cats[i],
                                Amount   |-> CategorySum(sub, cats[i])]]

\* pd.merge(df_budget, actuals, on='Category', how='outer').fillna(0):
\* every budget row with its category's spend (0 when none), then the
\* spend categories that no budget row names, with limit 0
OuterMerge(budget, act) ==
    LET spent(cat) == IF \E j \in DOMAIN act : act[j].Category = cat
                      THEN act[CHOOSE j \in DOMAIN act : act[j].Category = cat].Amount
                      ELSE 0
        left == [i \in DOMAIN budget |->
                    [Category      |-> budget[i].Category,
                     Monthly_Limit |-> budget[i].Monthly_Limit,
                     Amount        |-> spent(budget[i].Category),
                     budgeted      |-> TRUE]]
        right == SelectSeq([j \in DOMAIN act |->
                    [Category      |-> act[j].Category,
                     Monthly_Limit |-> 0,
                     Amount        |-> act[j].Amount,
                     budgeted      |-> FALSE]],
                    LAMBDA r : \A i \in DOMAIN budget : budget[i].Category # r.Category)
    IN  left \o right

\* faulty variant of Usage %: the mask_zero assignment of lines 189-190 is lost
UsagePct_no_mask_zero(spent, limit) ==
    IF limit > 0 THEN [num |-> spent * 100, den |-> limit]
    ELSE [num |-> 0, den |-> 1]

\* lines 185-190: Usage %, kept exact as num/den with den > 0
UsagePct(spent, limit) ==
    IF limit > 0 THEN [num |-> spent * 100, den |-> limit]
    ELSE IF limit = 0 /\ spent > 0 THEN [num |-> 100, den |-> 1]
    ELSE [num |-> 0, den |-> 1]

\* line 201: the status icon
col_status(pct) ==
    IF pct.num < 80 * pct.den THEN "on-track"
    ELSE IF pct.num < 100 * pct.den THEN "warning"
    ELSE "over-budget"

\* int(pct): truncation toward zero
IntOf(pct) ==
    IF pct.num >= 0 THEN pct.num \div pct.den ELSE -((-pct.num) \div pct.den)

\* lines 207-208
Max(a, b) == IF a >= b THEN a ELSE b
Min(a, b) == IF a <= b THEN a ELSE b
safe_pct(pct) == Max(0, Min(IntOf(pct), 100))

\* lines 181-215: the rows the tab renders, or the info message
BudgetTab(sub, budget) ==
    IF sub # << >> /\ budget # << >>
    THEN LET merged == SortDesc(OuterMerge(budget, actuals(sub)))
         IN  [shown |-> TRUE,
              rows  |-> [i \in DOMAIN merged |->
                  LET pct == UsagePct(merged[i].Amount, merged[i].Monthly_Limit)
                  IN  [Category      |-> merged[i].Category,
                       Amount        |-> merged[i].Amount,
                       Monthly_Limit |-> merged[i].Monthly_Limit,
                       budgeted      |-> merged[i].budgeted,
                       pct           |-> pct,
                       status        |-> col_status(pct),
                       progress      |-> safe_pct(pct)]]]
    ELSE [shown |-> FALSE, rows |-> << >>]

\* ------------------------------------------------------ tab 1: burndown
\* calendar.monthrange(year, month)[1]
IsLeap(y) == (y % 4 = 0 /\ y % 100 # 0) \/ y % 400 = 0
monthrange(y, m) ==
    IF m = 2 THEN (IF IsLeap(y) THEN 29 ELSE 28)
    ELSE IF m \in {4, 6, 9, 11} THEN 30 ELSE 31

\* line 147
total_budget(budget) ==
    IF budget # << >>
    THEN SumOver([i \in DOMAIN budget |-> budget[i].Monthly_Limit], DOMAIN budget)
    ELSE 0

\* line 161: groupby('Date') keys are full timestamps; reindex keeps only the
\* keys equal to a midnight of all_dates and fills the other days with 0
DailySpend(sub, y, m, d) ==
    SumOver([i \in DOMAIN sub |-> sub[i].Amount],
            {i \in DOMAIN sub : sub[i].Date = Timestamp(y, m, d, 0)})

\* line 163: cumsum of the reindexed daily sums up to day d
CumulativeSpend(sub, y, m, d) ==
    SumOver([i \in DOMAIN sub |-> sub[i].Amount],
            {i \in DOMAIN sub : \E e \in 1..d : sub[i].Date = Timestamp(y, m, e, 0)})

\* lines 145-173: the burndown rows, or nothing when the chart is not drawn
Burndown(sub, budget, sel) ==
    IF sub # << >> /\ total_budget(budget) > 0
    THEN LET tb == total_budget(budget)
             last_day == monthrange(sel[1], sel[2])
         IN  [shown |-> TRUE,
              rows  |-> [d \in 1..last_day |->
                  LET cum == CumulativeSpend(sub, sel[1], sel[2], d)
                  IN  [Day        |-> d,
                       Daily_Spend |-> DailySpend(sub, sel[1], sel[2], d),
                       Remaining  |-> tb - cum,
                       \* tb - (tb/last_day)*(i+1), as a fraction over last_day
                       Ideal      |-> [num |-> tb * last_day - tb * d,
                                       den |-> last_day]]]]
    ELSE [shown |-> FALSE, rows |-> << >>]

\* ------------------------------------------------------------------ state
VARIABLES
    store,           \* the spreadsheet: sheet1, Budgets, Time_Logs
    cache,           \* the st.cache_data entry of load_data
    pc,              \* where the session is: idle, loaded, rerun, stopped
    df_tx,           \* tables of the current script run
    df_budget,
    df_time,
    caught,          \* what failed in the last load_data body: the except
                     \* branches taken, or "open" when lines 24-25 raised
    msg,             \* what st.success / st.error last showed
    calls,           \* the store calls the last submit handler made, in order
    unseen,          \* sheet of a successful write no load_data has returned since
    selected_month,  \* the month selector's value
    budget_view,     \* what tab 2 rendered
    burndown         \* what the burndown chart of tab 1 rendered

vars == <<store, cache, pc, df_tx, df_budget, df_time, caught, msg, calls,
          unseen, selected_month, budget_view, burndown>>

NoCache == [valid |-> FALSE, tx |-> << >>, budget |-> << >>, time |-> << >>]
NoSheet == [exists |-> FALSE, rows |-> << >>]
Sheet(rows) == [exists |-> TRUE, rows |-> rows]
NoView == [shown |-> FALSE, rows |-> << >>]

\* ------------------------------------------------------------ form inputs
\* line 90, line 112: some of the eight offered categories
ExpenseCategories == {"Food", "Transport"}
TimeCategories == {"Deep Work"}
\* line 89: number_input(min_value=0.0)
ExpenseAmounts == {50}
\* line 114: number_input(min_value=0.1), whole hours here
TimeHours == {2}
\* line 98: the IST wall clock when the form is submitted
NowSet == {[y |-> 2025, m |-> 4, d |-> 2, tod |-> 51730]}
\* line 111: the date picked in the form
TimeDates == {[y |-> 2025, m |-> 4, d |-> 2]}

\* line 100: the appended expense row
ExpenseRow(now, amount, category) ==
    <<DateTxt(now.y, now.m, now.d, " ", now.tod), NumTxt(amount, FALSE),
      Txt(category), Txt("lunch"), Txt("UPI")>>

\* line 129: the appended time row
TimeRow(t_date, t_cat, t_hours) ==
    <<DateTxt(t_date.y, t_date.m, t_date.d, "", 0), Txt(t_cat),
      Txt("focus"), NumTxt(t_hours, FALSE)>>

\* ----------------------------------------------------------- initial state
\* sheets as the spreadsheet's owner may have left them
SampleRow ==
    <<DateTxt(2025, 4, 1, "", 0), NumTxt(100, FALSE), Txt("Food"),
      Txt("groceries"), Txt("Cash")>>

TxHeaderNoAmount ==
    <<Txt("Date"), Txt("Amt"), Txt("Category"), Txt("Description"), Txt("Mode")>>

InitTxGrids ==
    { << >>, <<TxHeader>>, <<TxHeader, SampleRow>>, <<TxHeaderNoAmount, SampleRow>> }

InitBudgetSheets ==
    { NoSheet,
      Sheet(<<BudgetHeader, <<Txt("Food"), NumTxt(100, FALSE)>> >>),
      Sheet(<< <<Txt("Category"), Txt("Limit")>>, <<Txt("Food"), NumTxt(100, FALSE)>> >>) }

\* richer sheets for the read-only sessions
TxRowSamples ==
    { SampleRow,
      <<DateTxt(2025, 4, 1, "T", 51730), NumTxt(80, FALSE), Txt("Food"),
        Txt("dinner"), Txt("UPI")>>,
      <<DateTxt(2025, 4, 30, " ", 51730), NumTxt(120, TRUE), Txt("Food"),
        Txt("party"), Txt("Credit Card")>>,
      <<DateTxt(2024, 2, 29, "", 0), NumTxt(-50, FALSE), Txt("Food"),
        Txt("refund"), Txt("UPI")>>,
      <<DateTxt(2025, 4, 2, "", 0), NumTxt(30, FALSE), Txt("Transport"),
        Txt("bus"), Txt("Cash")>>,
      <<Txt("n/a"), Txt("abc"), Txt("Bills"),
        Txt("rent"), Txt("SI")>> }

BSeq(S, n) == UNION {[1..k -> S] : k \in 0..n}

ViewTxGrids == { <<TxHeader>> \o rows : rows \in BSeq(TxRowSamples, MaxSheetRows) }

ViewBudgetSheets ==
    { NoSheet,
      Sheet(<<BudgetHeader>>),
      Sheet(<<BudgetHeader, <<Txt("Food"), NumTxt(100, FALSE)>> >>),
      Sheet(<<BudgetHeader, <<Txt("Food"), NumTxt(0, FALSE)>> >>),
      Sheet(<<BudgetHeader, <<Txt("Food"), NumTxt(100, TRUE)>>,
                            <<Txt("Bills"), NumTxt(29, FALSE)>> >>),
      Sheet(<<BudgetHeader, <<Txt("Transport"), Txt("tbd")>>,
                            <<Txt("Food"), NumTxt(50, FALSE)>> >>) }

ViewTimeSheets ==
    { NoSheet,
      Sheet(<<TimeHeader, <<DateTxt(2025, 5, 3, "", 0), Padded("Commute"),
                            Txt("drive"), NumTxt(2, FALSE)>> >>),
      Sheet(<<TimeHeader, <<Txt("yesterday"), Txt("Sleep"),
                            Txt("nap"), NumTxt(1, FALSE)>> >>) }

StartState ==
    /\ cache = NoCache
    /\ pc = "idle"
    /\ df_tx = << >>
    /\ df_budget = << >>
    /\ df_time = << >>
    /\ caught = {}
    /\ msg = ""
    /\ calls = << >>
    /\ unseen = ""
    /\ selected_month = NoData
    /\ budget_view = NoView
    /\ burndown = NoView

Init ==
    /\ store \in [tx : InitTxGrids, budget : InitBudgetSheets, time : {NoSheet}]
    /\ StartState

\* ------------------------------------------------------------------ actions
\* lines 22-60 under lines 63-67: one call of the cached load_data by a
\* script run.  A cache hit returns the stored tables; a miss runs the body,
\* whose store reads each return or raise (a missing sheet always raises).
\* faulty variant of the body: one try around the three sections, so that
\* any failure empties every table
load_data_one_try(txOk, budgetOk, timeOk) ==
    LET txFail == ~txOk \/ TxRaises(store.tx)
        bFail  == ~budgetOk \/ BudgetRaises(store.budget.rows)
        tFail  == ~timeOk \/ TimeRaises(store.time.rows)
        any    == txFail \/ bFail \/ tFail
    IN  [tx     |-> IF any THEN << >> ELSE TxFrame(store.tx),
         budget |-> IF any THEN << >> ELSE BudgetFrame(store.budget.rows),
         time   |-> IF any THEN << >> ELSE TimeFrame(store.time.rows),
         caught |-> (IF txFail THEN {"tx"} ELSE {})
                    \cup (IF bFail THEN {"budget"} ELSE {})
                    \cup (IF tFail THEN {"time"} ELSE {})]

load_data_body(txOk, budgetOk, timeOk) ==
    LET txFail == ~txOk \/ TxRaises(store.tx)
        bFail  == ~budgetOk \/ BudgetRaises(store.budget.rows)
        tFail  == ~timeOk \/ TimeRaises(store.time.rows)
    IN  [tx     |-> IF txFail THEN << >> ELSE TxFrame(store.tx),
         budget |-> IF bFail THEN << >> ELSE BudgetFrame(store.budget.rows),
         time   |-> IF tFail THEN << >> ELSE TimeFrame(store.time.rows),
         caught |-> (IF txFail THEN {"tx"} ELSE {})
                    \cup (IF bFail THEN {"budget"} ELSE {})
                    \cup (IF tFail THEN {"time"} ELSE {})]

RunLoadData ==
    /\ pc \in {"idle", "rerun", "stopped"}
    /\ calls' = << >>
    \* a new run starts from an empty page
    /\ selected_month' = NoData
    /\ budget_view' = NoView
    /\ burndown' = NoView
    /\ UNCHANGED store
    /\ IF cache.valid
       THEN /\ df_tx' = cache.tx
            /\ df_budget' = cache.budget
            /\ df_time' = cache.time
            /\ pc' = "loaded"
            /\ msg' = ""
            /\ unseen' = ""
            /\ UNCHANGED <<cache, caught>>
       ELSE \/ \* lines 24-25 raise; lines 65-67 report and stop
               /\ pc' = "stopped"
               /\ msg' = "Data Error"
               /\ df_tx' = << >>
               /\ df_budget' = << >>
               /\ df_time' = << >>
               /\ caught' = {"open"}
               /\ UNCHANGED <<cache, unseen>>
            \/ \E txOk \in BOOLEAN,
                  budgetOk \in {ok \in BOOLEAN : ok => store.budget.exists},
                  timeOk \in {ok \in BOOLEAN : ok => store.time.exists} :
                 LET r == load_data_body(txOk, budgetOk, timeOk)
                 IN  /\ df_tx' = r.tx
                     /\ df_budget' = r.budget
                     /\ df_time' = r.time
                     /\ caught' = r.caught
                     /\ cache' = [valid |-> TRUE, tx |-> r.tx,
                                  budget |-> r.budget, time |-> r.time]
                     /\ pc' = "loaded"
                     /\ msg' = ""
                     /\ unseen' = ""

\* lines 140-215: the tabs, for the month the selector holds
RenderTabs(sel) ==
    LET sub_tx == SelectRows(df_tx, sel)
    IN  /\ selected_month' = sel
        /\ budget_view' = BudgetTab(sub_tx, df_budget)
        /\ burndown' = Burndown(sub_tx, df_budget, sel)

\* a script run in which no button was pressed
Render ==
    /\ pc = "loaded"
    /\ \E sel \in MonthChoices(df_tx, df_time) : RenderTabs(sel)
    /\ pc' = "idle"
    /\ UNCHANGED <<store, cache, df_tx, df_budget, df_time, caught, msg, calls, unseen>>

\* lines 72-74
Refresh ==
    /\ pc = "loaded"
    /\ cache' = NoCache
    /\ pc' = "rerun"
    /\ UNCHANGED <<store, df_tx, df_budget, df_time, caught, msg, calls, unseen,
                   selected_month, budget_view, burndown>>

\* the ttl=60 of line 22 runs out
Expire ==
    /\ cache.valid
    /\ cache' = NoCache
    /\ UNCHANGED <<store, pc, df_tx, df_budget, df_time, caught, msg, calls, unseen,
                   selected_month, budget_view, burndown>>

\* faulty variant of the except branch: it also clears the cache
HandlerFailed_clears_cache(made) ==
    /\ msg' = "Error"
    /\ calls' = made
    /\ pc' = "idle"
    /\ cache' = NoCache
    /\ \E sel \in MonthChoices(df_tx, df_time) : RenderTabs(sel)
    /\ UNCHANGED <<df_tx, df_budget, df_time, caught, unseen>>

\* lines 104-105 / 133-134: st.error, then the script goes on to the tabs
HandlerFailed(made) ==
    /\ msg' = "Error"
    /\ calls' = made
    /\ pc' = "idle"
    /\ \E sel \in MonthChoices(df_tx, df_time) : RenderTabs(sel)
    /\ UNCHANGED <<cache, df_tx, df_budget, df_time, caught, unseen>>

\* faulty variant of the success path: st.cache_data.clear() is left out
HandlerSucceeded_keeps_cache(made, text, sheet) ==
    /\ msg' = text
    /\ calls' = made
    /\ pc' = "rerun"
    /\ unseen' = sheet
    /\ UNCHANGED <<cache, df_tx, df_budget, df_time, caught, selected_month,
                   budget_view, burndown>>

\* lines 101-103 / 130-132: st.success, st.cache_data.clear(), st.rerun()
HandlerSucceeded(made, text, sheet) ==
    /\ msg' = text
    /\ calls' = made
    /\ cache' = NoCache
    /\ pc' = "rerun"
    /\ unseen' = sheet
    /\ UNCHANGED <<df_tx, df_budget, df_time, caught, selected_month,
                   budget_view, burndown>>

\* lines 94-105
SaveExpense ==
    /\ pc = "loaded"
    /\ Len(store.tx) <= MaxRows
    /\ \E now \in NowSet, amount \in ExpenseAmounts, category \in ExpenseCategories :
          \/ HandlerFailed(<<"open">>) /\ UNCHANGED store
          \/ HandlerFailed(<<"open", "append_row">>) /\ UNCHANGED store
          \/ /\ store' = [store EXCEPT !.tx =
                             Append(@, ExpenseRow(now, amount, category))]
             /\ HandlerSucceeded(<<"open", "append_row">>, "Expense Saved!", "tx")

\* lines 116-134; every store call made either returns or raises, except
\* that worksheet() cannot find a missing sheet and add_worksheet refuses a
\* title that is already taken
SaveTimeLog ==
    /\ pc = "loaded"
    /\ Len(store.time.rows) <= MaxRows
    /\ \E t_date \in TimeDates, t_cat \in TimeCategories, t_hours \in TimeHours :
          LET row == TimeRow(t_date, t_cat, t_hours)
          IN  \/ HandlerFailed(<<"open">>) /\ UNCHANGED store
              \* line 123 returned the sheet
              \/ /\ store.time.exists
                 /\ \/ /\ store' = [store EXCEPT !.time.rows = Append(@, row)]
                       /\ HandlerSucceeded(<<"open", "worksheet", "append_row">>,
                                           "Time Logged!", "time")
                    \/ /\ HandlerFailed(<<"open", "worksheet", "append_row">>)
                       /\ UNCHANGED store
              \* line 123 raised, line 125 raised too
              \/ /\ HandlerFailed(<<"open", "worksheet", "add_worksheet">>)
                 /\ UNCHANGED store
              \* line 123 raised, line 125 created the sheet
              \/ /\ ~store.time.exists
                 /\ \/ /\ store' = [store EXCEPT !.time = Sheet(<< >>)]
                       /\ HandlerFailed(<<"open", "worksheet", "add_worksheet",
                                          "append_header">>)
                    \/ /\ store' = [store EXCEPT !.time = Sheet(<<TimeHeader>>)]
                       /\ HandlerFailed(<<"open", "worksheet", "add_worksheet",
                                          "append_header", "append_row">>)
                    \/ /\ store' = [store EXCEPT !.time = Sheet(<<TimeHeader, row>>)]
                       /\ HandlerSucceeded(<<"open", "worksheet", "add_worksheet",
                                             "append_header", "append_row">>,
                                           "Time Logged!", "time")

Next ==
    \/ RunLoadData
    \/ Render
    \/ Refresh
    \/ Expire
    \/ SaveExpense
    \/ SaveTimeLog

Spec == Init /\ [][Next]_vars

\* read-only sessions over richer sheets: the user looks, selects months and
\* refreshes, and submits no form
InitView ==
    /\ store \in [tx : ViewTxGrids, budget : ViewBudgetSheets, time : ViewTimeSheets]
    /\ StartState

NextView ==
    \/ RunLoadData
    \/ Render
    \/ Refresh
    \/ Expire

SpecView == InitView /\ [][NextView]_vars

\* ================================================================ claims
sub_tx == SelectRows(df_tx, selected_month)

\* C1: every record of the normalized transactions and time-log tables has
\* a valid date and a period key; a row whose Date fails to parse is dropped.
C1_ValidDates ==
    /\ \A i \in DOMAIN df_tx : ~df_tx[i].Date.nat /\ df_tx[i].Month_Sort # NaN
    /\ \A i \in DOMAIN df_time : ~df_time[i].Date.nat /\ df_time[i].Month_Sort # NaN

\* C2: a failed load of the transactions dataset (read raises, Amount/Date
\* column missing) stops the caller; it never goes on with an empty table.
C2_PrimaryFailureStops ==
    "tx" \in caught => pc = "stopped"

\* C3: Budgets and Time_Logs failures give that dataset an empty table and
\* do not raise; the other datasets' tables are what their own sheet gives.
C3_IndependentLoads ==
    [][(pc # "loaded" /\ ~cache.valid /\ pc' # pc) =>
          /\ pc' = "stopped" => caught' = {"open"}
          /\ pc' = "loaded" =>
                /\ (~store.budget.exists \/ BudgetRaises(store.budget.rows))
                      => "budget" \in caught'
                /\ (~store.time.exists \/ TimeRaises(store.time.rows))
                      => "time" \in caught'
                /\ "budget" \in caught' => df_budget' = << >>
                /\ "time" \in caught' => df_time' = << >>
                /\ "tx" \notin caught' => df_tx' = TxFrame(store.tx)
                /\ "budget" \notin caught' => df_budget' = BudgetFrame(store.budget.rows)
                /\ "time" \notin caught' => df_time' = TimeFrame(store.time.rows)
      ]_vars

\* C3 witness: Budgets and Time_Logs both failed, transactions loaded
C3_Witness ==
    /\ pc = "loaded"
    /\ caught = {"budget", "time"}
    /\ df_tx # << >>
    /\ df_tx = TxFrame(store.tx)

\* the sheet a successful write went to, and whether the tables show its row
WrittenRows(st, sheet) == IF sheet = "tx" THEN st.tx ELSE st.time.rows

NewRowVisible(st, sheet, tx, tm) ==
    LET raw == WrittenRows(st, sheet)
    IN  IF sheet = "tx"
        THEN Len(tx) = Len(raw) - 1 /\ Len(tx) >= 1
             /\ tx[Len(tx)] = TxRecord(<<TxHeader, raw[Len(raw)]>>, 2)
        ELSE Len(tm) = Len(raw) - 1 /\ Len(tm) >= 1
             /\ tm[Len(tm)] = TimeRecord(<<TimeHeader, raw[Len(raw)]>>, 2)

SaveFailedStep ==
    /\ pc = "loaded"
    /\ calls' # << >>
    /\ store'.tx = store.tx
    /\ \/ store'.time.rows = store.time.rows
       \/ store'.time.rows = << >>
       \/ store'.time.rows = <<TimeHeader>>

\* C5: a failed save is reported as an error, leaves the cache and the
\* loaded tables as they were, and makes no store call twice.
C5_FailedSave ==
    [][SaveFailedStep =>
          /\ msg' = "Error"
          /\ cache' = cache
          /\ df_tx' = df_tx /\ df_budget' = df_budget /\ df_time' = df_time
          /\ \A i, j \in DOMAIN calls' : calls'[i] = calls'[j] => i = j
      ]_vars

\* C5 witness: a time save failed at the header append, with the cache kept
C5_Witness ==
    /\ msg = "Error"
    /\ calls = <<"open", "worksheet", "add_worksheet", "append_header">>
    /\ cache.valid
    /\ store.time = Sheet(<< >>)

\* C6: the budget comparison contains every category with spend in the
\* selected period and every category with a budget row.
C6_AllCategories ==
    pc = "idle" =>
        \A cat \in {sub_tx[i].Category : i \in DOMAIN sub_tx}
                   \cup {df_budget[i].Category : i \in DOMAIN df_budget} :
            \E r \in DOMAIN budget_view.rows : budget_view.rows[r].Category = cat

\* C7: each comparison row is on-track below 80, warning from 80 to 100,
\* over-budget above 100, and unbudgeted when no limit row matches.
C7_Status ==
    pc = "idle" =>
        \A r \in DOMAIN budget_view.rows :
            LET row == budget_view.rows[r]
            IN  row.status =
                   IF ~row.budgeted THEN "unbudgeted"
                   ELSE IF row.pct.num < 80 * row.pct.den THEN "on-track"
                   ELSE IF row.pct.num <= 100 * row.pct.den THEN "warning"
                   ELSE "over-budget"

\* C8: usage_percent is 100*spent/limit for limit > 0, 100 for limit 0 with
\* spend, 0 for limit 0 without; the progress value is it truncated and
\* clamped into [0,100]; the status compares the unclamped value.
C8_UsagePct ==
    pc = "idle" =>
        \A r \in DOMAIN budget_view.rows :
            LET row == budget_view.rows[r]
                spent == row.Amount
                limit == row.Monthly_Limit
                n == row.pct.num
                d == row.pct.den
                p == row.progress
            IN  /\ d > 0
                /\ limit > 0 => n * limit = 100 * spent * d
                /\ (limit = 0 /\ spent > 0) => n = 100 * d
                /\ (limit = 0 /\ spent = 0) => n = 0
                /\ p \in 0..100
                /\ n < 0 => p = 0
                /\ n >= 100 * d => p = 100
                /\ (0 <= n /\ n < 100 * d) => (p * d <= n /\ n < (p + 1) * d)
                /\ row.status = "on-track" <=> n < 80 * d
                /\ n > 100 * d => row.status = "over-budget"

\* C8 witness: a row over its limit, shown with a full progress bar
C8_Witness ==
    /\ pc = "idle"
    /\ \E r \in DOMAIN budget_view.rows :
          LET row == budget_view.rows[r]
          IN  /\ row.Monthly_Limit > 0
              /\ row.Amount > row.Monthly_Limit
              /\ row.progress = 100
    /\ \E r \in DOMAIN budget_view.rows :
          budget_view.rows[r].Monthly_Limit = 0 /\ budget_view.rows[r].Amount > 0

\* C9: the burndown has one entry per calendar day of the selected month;
\* remaining on day d is total_budget minus the period's spend dated on or
\* before d; ideal is total_budget - (total_budget/days)*d, 0 on the last day.
C9_Burndown ==
    (pc = "idle" /\ burndown.shown) =>
        LET days == monthrange(selected_month[1], selected_month[2])
            tb == total_budget(df_budget)
        IN  /\ DOMAIN burndown.rows = 1..days
            /\ \A d \in 1..days :
                  /\ burndown.rows[d].Day = d
                  /\ burndown.rows[d].Remaining =
                        tb - SumOver([i \in DOMAIN sub_tx |-> sub_tx[i].Amount],
                                     {i \in DOMAIN sub_tx : sub_tx[i].Date.d <= d})
                  /\ burndown.rows[d].Ideal.num = (tb * days - tb * d)
                  /\ burndown.rows[d].Ideal.den = days
            /\ burndown.rows[days].Ideal.num = 0

\* C10: whenever the Time_Logs sheet is non-empty its first row is the
\* header, so a saved entry is never consumed as the header row.
C10_HeaderFirst ==
    store.time.rows # << >> => store.time.rows[1] = TimeHeader

====
